---- MODULE Spec2Model ----
(***************************************************************************)
(* Model of the autonomous delivery agent: the grid city (environment.py), *)
(* the priority frontier and the heuristic (utils.py), the three searches  *)
(* and the replanning demo (agent.py).                                     *)
(*                                                                         *)
(* Positions are pairs <<row, col>>, 0-based as in the code.  Python's     *)
(* None is the empty tuple, float('inf') is the number Inf, larger than    *)
(* every cost the bounded grids can produce.                               *)
(***************************************************************************)
EXTENDS Integers, Sequences, FiniteSets, TLC

VARIABLES
    grid,               \* GridCity.grid: cell -> terrain cost (Inf for '#')
    height, width,      \* GridCity.height, GridCity.width
    static_obstacles,   \* GridCity.static_obstacles: set of cells
    dynamic_obstacles,  \* GridCity.dynamic_obstacles: time step -> list of cells
    start_pos,          \* DeliveryAgent.start_pos
    goal_pos,           \* DeliveryAgent.goal_pos
    result,             \* algorithm name -> the record its last call returned
    pc,                 \* position of GridCity.__init__ and of dynamic_replanning_demo
    demo,               \* the locals of dynamic_replanning_demo
    call,               \* the locals of the search call that is followed step by step
    lines               \* the lines of the map file given to GridCity

vars == <<grid, height, width, static_obstacles, dynamic_obstacles,
          start_pos, goal_pos, result, pc, demo, call, lines>>

env_vars == <<grid, height, width, static_obstacles, dynamic_obstacles>>

----------------------------------------------------------------------------
(* Bounds of the model *)

MaxCost == 2         \* terrain costs of the cities with obstacles: 1..MaxCost

MaxTerrainCost == 3  \* terrain costs of the open cities: 1..MaxTerrainCost

MaxDemoCost == 1     \* terrain costs of the cities of the demo: 1..MaxDemoCost

MaxBucket == 1       \* add_dynamic_obstacle is not called on a bucket this long

MaxElapsed == 1      \* readings of time.time() - start_time: 0..MaxElapsed

MaxLines == 3        \* lines of a map file: 0..MaxLines

MaxWidth == 2        \* characters of a line before its newline: 0..MaxWidth

----------------------------------------------------------------------------
(* Values *)

None == <<>>

Inf == 1000000

Range(s) == {s[i] : i \in 1..Len(s)}

Cells(h, w) == (0..(h - 1)) \X (0..(w - 1))

----------------------------------------------------------------------------
(* environment.py *)

\* A line of the map file is the sequence of its characters, each a string
\* of length one; file.readlines() leaves the newline at the end of a line.
Whitespace == {" ", "\n"}

RECURSIVE lstrip(_)
lstrip(line) ==
    IF line # <<>> /\ Head(line) \in Whitespace THEN lstrip(Tail(line)) ELSE line

RECURSIVE rstrip(_)
rstrip(line) ==
    IF line # <<>> /\ line[Len(line)] \in Whitespace
    THEN rstrip(SubSeq(line, 1, Len(line) - 1))
    ELSE line

strip(line) == rstrip(lstrip(line))

isdigit(char) == char \in {"0", "1", "2", "3", "4", "5", "6", "7", "8", "9"}

int(char) ==
    CHOOSE n \in 0..9 : <<"0", "1", "2", "3", "4", "5", "6", "7", "8", "9">>[n + 1] = char

\* The fields _load_map works on, as __init__ sets them before the call.
NotLoaded ==
    [grid |-> <<>>, static_obstacles |-> {}, start_pos |-> None, goal_pos |-> None]

\* The inner for loop of _load_map: the characters of line from index col
\* (0-based) on, read as the cells of row; grid_row is the row built so far.
RECURSIVE load_row(_, _, _, _, _)
load_row(row, line, col, grid_row, st) ==
    IF col >= Len(line) THEN [st EXCEPT !.grid = Append(@, grid_row)]
    ELSE LET char == line[col + 1] IN
         IF char = "S"
         THEN load_row(row, line, col + 1, Append(grid_row, 1),
                       [st EXCEPT !.start_pos = <<row, col>>])
         ELSE IF char = "G"
         THEN load_row(row, line, col + 1, Append(grid_row, 1),
                       [st EXCEPT !.goal_pos = <<row, col>>])
         ELSE IF char = "#"
         THEN load_row(row, line, col + 1, Append(grid_row, Inf),
                       [st EXCEPT !.static_obstacles = @ \cup {<<row, col>>}])
         ELSE IF char = "." \/ char = "1"
         THEN load_row(row, line, col + 1, Append(grid_row, 1), st)
         ELSE IF isdigit(char) /\ char # "0"
         THEN load_row(row, line, col + 1, Append(grid_row, int(char)), st)
         ELSE load_row(row, line, col + 1, Append(grid_row, 1), st)

\* The outer for loop of _load_map: the lines from index row (0-based) on.
RECURSIVE load_lines(_, _, _)
load_lines(file_lines, row, st) ==
    IF row >= Len(file_lines) THEN st
    ELSE LET line == strip(file_lines[row + 1]) IN
         IF line = <<>>
         THEN load_lines(file_lines, row + 1, st)
         ELSE load_lines(file_lines, row + 1, load_row(row, line, 0, <<>>, st))

load_map(file_lines) == load_lines(file_lines, 0, NotLoaded)

\* The schedule the constructor installs.
setup_dynamic_obstacles ==
    (3 :> << <<1, 2>> >>) @@ (5 :> << <<2, 1>>, <<2, 2>> >>)

is_valid(position) ==
    /\ 0 <= position[1] /\ position[1] < height
    /\ 0 <= position[2] /\ position[2] < width

get_cost(position) ==
    IF ~is_valid(position) THEN Inf ELSE grid[position]

\* is_obstacle looking through every bucket of the schedule.
is_obstacle_any_step(position, time_step) ==
    \/ ~is_valid(position)
    \/ position \in static_obstacles
    \/ \E t \in DOMAIN dynamic_obstacles : position \in Range(dynamic_obstacles[t])

\* is_obstacle without the static obstacles.
is_obstacle_no_static(position, time_step) ==
    \/ ~is_valid(position)
    \/ /\ time_step \in DOMAIN dynamic_obstacles
       /\ position \in Range(dynamic_obstacles[time_step])

is_obstacle(position, time_step) ==
    IF ~is_valid(position) THEN TRUE
    ELSE IF position \in static_obstacles THEN TRUE
    ELSE IF time_step \in DOMAIN dynamic_obstacles
            /\ position \in Range(dynamic_obstacles[time_step]) THEN TRUE
    ELSE FALSE

\* The directions without the last one.
\* The time step of is_obstacle when the caller gives none.
default_time_step == 0

directions_no_right == << <<-1, 0>>, <<1, 0>>, <<0, -1>> >>

directions == << <<-1, 0>>, <<1, 0>>, <<0, -1>>, <<0, 1>> >>

RECURSIVE neighbors_from(_, _)
neighbors_from(position, i) ==
    IF i > Len(directions) THEN <<>>
    ELSE LET new_pos == <<position[1] + directions[i][1],
                          position[2] + directions[i][2]>>
             rest    == neighbors_from(position, i + 1)
         IN  IF is_valid(new_pos) /\ ~is_obstacle(new_pos, default_time_step)
             THEN << <<new_pos, get_cost(new_pos)>> >> \o rest
             ELSE rest

get_neighbors(position) == neighbors_from(position, 1)

\* add_dynamic_obstacle that registers the position at the default time step.
add_at_default_step(position, time_step) ==
    LET bucket == IF default_time_step \notin DOMAIN dynamic_obstacles
                  THEN <<>> ELSE dynamic_obstacles[default_time_step]
    IN  [t \in DOMAIN dynamic_obstacles \cup {default_time_step} |->
            IF t = default_time_step THEN Append(bucket, position)
            ELSE dynamic_obstacles[t]]

\* The schedule after add_dynamic_obstacle(position, time_step).
add_dynamic_obstacle(position, time_step) ==
    LET bucket == IF time_step \notin DOMAIN dynamic_obstacles
                  THEN <<>> ELSE dynamic_obstacles[time_step]
    IN  [t \in DOMAIN dynamic_obstacles \cup {time_step} |->
            IF t = time_step THEN Append(bucket, position) ELSE dynamic_obstacles[t]]

\* list.remove: the list without the first occurrence of x.
list_remove(list, x) ==
    LET i == CHOOSE k \in 1..Len(list) :
                 list[k] = x /\ \A j \in 1..(k - 1) : list[j] # x
    IN  SubSeq(list, 1, i - 1) \o SubSeq(list, i + 1, Len(list))

\* remove_dynamic_obstacle that keeps the bucket it has emptied.
remove_keep_bucket(position, time_step) ==
    IF time_step \in DOMAIN dynamic_obstacles
       /\ position \in Range(dynamic_obstacles[time_step])
    THEN [dynamic_obstacles EXCEPT
             ![time_step] = list_remove(dynamic_obstacles[time_step], position)]
    ELSE dynamic_obstacles

\* The schedule after remove_dynamic_obstacle(position, time_step).
remove_dynamic_obstacle(position, time_step) ==
    IF time_step \in DOMAIN dynamic_obstacles
       /\ position \in Range(dynamic_obstacles[time_step])
    THEN LET left == list_remove(dynamic_obstacles[time_step], position)
         IN  IF left = <<>>
             THEN [t \in DOMAIN dynamic_obstacles \ {time_step} |-> dynamic_obstacles[t]]
             ELSE [dynamic_obstacles EXCEPT ![time_step] = left]
    ELSE dynamic_obstacles

----------------------------------------------------------------------------
(* utils.py *)

abs(x) == IF x < 0 THEN -x ELSE x

\* A heuristic that overestimates: four times the distance.
manhattan_times_four(pos1, pos2) ==
    4 * (abs(pos1[1] - pos2[1]) + abs(pos1[2] - pos2[2]))

manhattan_distance(pos1, pos2) ==
    abs(pos1[1] - pos2[1]) + abs(pos1[2] - pos2[2])

\* The order of a heap that keeps the largest priority on top.
entry_greater(a, b) == b[1] < a[1]

\* Python's order on the heap entries (priority, (row, col)).
entry_less(a, b) ==
    \/ a[1] < b[1]
    \/ /\ a[1] = b[1]
       /\ \/ a[2][1] < b[2][1]
          \/ a[2][1] = b[2][1] /\ a[2][2] < b[2][2]

\* PriorityQueue.put: heappush of (priority, item).
pq_put(elements, item, priority) == Append(elements, <<priority, item>>)

\* The entry heappop removes: the least one.
pq_least(elements) ==
    CHOOSE i \in 1..Len(elements) :
        \A j \in 1..Len(elements) :
            /\ ~entry_less(elements[j], elements[i])
            /\ (elements[j] = elements[i] => i <= j)

\* PriorityQueue.get: the item of the least entry, and the entries left.
pq_get(elements) ==
    LET i == pq_least(elements)
    IN  [item |-> elements[i][2],
         rest |-> SubSeq(elements, 1, i - 1) \o SubSeq(elements, i + 1, Len(elements))]

pq_empty(elements) == elements = <<>>

----------------------------------------------------------------------------
(* agent.py: the searches.  A result is the record a search returns,       *)
(* without its elapsed time.                                               *)

failure(nodes_expanded) ==
    [path |-> None, cost |-> Inf, nodes_expanded |-> nodes_expanded]

\* The list built by the while loop, goal first.
RECURSIVE walk_back(_, _)
walk_back(came_from, current) ==
    IF current = None THEN <<>>
    ELSE <<current>> \o
         walk_back(came_from,
                   IF current \in DOMAIN came_from THEN came_from[current] ELSE None)

\* The list left as the while loop built it.
not_reversed(path) == path

reverse(path) == [i \in 1..Len(path) |-> path[Len(path) + 1 - i]]

reconstruct_path(came_from, current) == reverse(walk_back(came_from, current))

\* The sum of get_cost over the cells of path after the first.
RECURSIVE sum_cost_moves(_)
sum_cost_moves(path) ==
    IF Len(path) <= 1 THEN 0
    ELSE get_cost(path[Len(path)]) + sum_cost_moves(SubSeq(path, 1, Len(path) - 1))

RECURSIVE sum_cost(_)
sum_cost(path) ==
    IF path = <<>> THEN 0 ELSE get_cost(Head(path)) + sum_cost(Tail(path))

\* deque.pop: the newest position instead of the oldest.
deque_pop(queue) ==
    [item |-> queue[Len(queue)], rest |-> SubSeq(queue, 1, Len(queue) - 1)]

\* deque.popleft: the oldest position, and the positions left.
deque_popleft(queue) == [item |-> Head(queue), rest |-> Tail(queue)]

\* bfs: the for loop over the neighbours of current, from the i-th on.
RECURSIVE bfs_explore(_, _, _, _)
bfs_explore(nbrs, i, current, st) ==
    IF i > Len(nbrs) THEN st
    ELSE LET neighbor == nbrs[i][1]
         IN  IF neighbor \notin st.visited
             THEN bfs_explore(nbrs, i + 1, current,
                      [st EXCEPT !.visited = @ \cup {neighbor},
                                 !.came_from = @ @@ (neighbor :> current),
                                 !.queue = Append(@, neighbor)])
             ELSE bfs_explore(nbrs, i + 1, current, st)

\* bfs: the while loop.
RECURSIVE bfs_loop(_)
bfs_loop(st) ==
    IF st.queue = <<>> THEN failure(st.nodes_expanded)
    ELSE LET got     == deque_popleft(st.queue)
             current == got.item
             popped  == [st EXCEPT !.queue = got.rest, !.nodes_expanded = @ + 1]
         IN  IF current = goal_pos
             THEN LET path == reconstruct_path(popped.came_from, current)
                  IN  [path |-> path, cost |-> sum_cost(path),
                       nodes_expanded |-> popped.nodes_expanded]
             ELSE bfs_loop(bfs_explore(get_neighbors(current), 1, current, popped))

bfs ==
    IF start_pos = None \/ goal_pos = None THEN failure(0)
    ELSE bfs_loop([queue |-> <<start_pos>>,
                   came_from |-> (start_pos :> None),
                   visited |-> {start_pos},
                   nodes_expanded |-> 0])

\* The test with a cost that is no worse taken for an improvement.
improves_or_equal(cost_so_far, neighbor, new_cost) ==
    neighbor \notin DOMAIN cost_so_far \/ new_cost <= cost_so_far[neighbor]

\* The shared test of ucs and a_star: is new_cost an improvement for neighbor?
improves(cost_so_far, neighbor, new_cost) ==
    neighbor \notin DOMAIN cost_so_far \/ new_cost < cost_so_far[neighbor]

\* f overridden at the key k (a dict assignment).
assign(f, k, v) == [x \in DOMAIN f \cup {k} |-> IF x = k THEN v ELSE f[x]]

\* ucs: the for loop over the neighbours of current, from the i-th on.
RECURSIVE ucs_explore(_, _, _, _)
ucs_explore(nbrs, i, current, st) ==
    IF i > Len(nbrs) THEN st
    ELSE LET neighbor == nbrs[i][1]
             new_cost == st.cost_so_far[current] + nbrs[i][2]
         IN  IF improves(st.cost_so_far, neighbor, new_cost)
             THEN ucs_explore(nbrs, i + 1, current,
                      [st EXCEPT !.cost_so_far = assign(@, neighbor, new_cost),
                                 !.came_from = assign(@, neighbor, current),
                                 !.frontier = pq_put(@, neighbor, new_cost)])
             ELSE ucs_explore(nbrs, i + 1, current, st)

\* ucs: the while loop.
RECURSIVE ucs_loop(_)
ucs_loop(st) ==
    IF pq_empty(st.frontier) THEN failure(st.nodes_expanded)
    ELSE LET got     == pq_get(st.frontier)
             current == got.item
             popped  == [st EXCEPT !.frontier = got.rest, !.nodes_expanded = @ + 1]
         IN  IF current = goal_pos
             THEN [path |-> reconstruct_path(popped.came_from, current),
                   cost |-> popped.cost_so_far[current],
                   nodes_expanded |-> popped.nodes_expanded]
             ELSE ucs_loop(ucs_explore(get_neighbors(current), 1, current, popped))

ucs ==
    IF start_pos = None \/ goal_pos = None THEN failure(0)
    ELSE ucs_loop([frontier |-> pq_put(<<>>, start_pos, 0),
                   came_from |-> (start_pos :> None),
                   cost_so_far |-> (start_pos :> 0),
                   nodes_expanded |-> 0])

\* a_star: the for loop over the neighbours of current, from the i-th on.
RECURSIVE a_star_explore(_, _, _, _)
a_star_explore(nbrs, i, current, st) ==
    IF i > Len(nbrs) THEN st
    ELSE LET neighbor == nbrs[i][1]
             new_cost == st.cost_so_far[current] + nbrs[i][2]
             priority == new_cost + manhattan_distance(neighbor, goal_pos)
         IN  IF improves(st.cost_so_far, neighbor, new_cost)
             THEN a_star_explore(nbrs, i + 1, current,
                      [st EXCEPT !.cost_so_far = assign(@, neighbor, new_cost),
                                 !.came_from = assign(@, neighbor, current),
                                 !.frontier = pq_put(@, neighbor, priority)])
             ELSE a_star_explore(nbrs, i + 1, current, st)

\* a_star: the while loop.
RECURSIVE a_star_loop(_)
a_star_loop(st) ==
    IF pq_empty(st.frontier) THEN failure(st.nodes_expanded)
    ELSE LET got     == pq_get(st.frontier)
             current == got.item
             popped  == [st EXCEPT !.frontier = got.rest, !.nodes_expanded = @ + 1]
         IN  IF current = goal_pos
             THEN [path |-> reconstruct_path(popped.came_from, current),
                   cost |-> popped.cost_so_far[current],
                   nodes_expanded |-> popped.nodes_expanded]
             ELSE a_star_loop(a_star_explore(get_neighbors(current), 1, current, popped))

a_star ==
    IF start_pos = None \/ goal_pos = None THEN failure(0)
    ELSE a_star_loop([frontier |-> pq_put(<<>>, start_pos, 0),
                      came_from |-> (start_pos :> None),
                      cost_so_far |-> (start_pos :> 0),
                      nodes_expanded |-> 0])

----------------------------------------------------------------------------------------------------------------------------------------
(* The searches on bounded families of grid cities.  The agent takes its   *)
(* grid, start and goal from the environment object it is constructed      *)
(* with; the families below are the environments the searches are run on.  *)

SearchDims == {<<2, 3>>}

MazeDims == {<<3, 3>>}

NotRun == [path |-> None, cost |-> 0, nodes_expanded |-> 0]

Algos == {"bfs", "ucs", "a_star"}

\* A constructed grid city of one of the dimensions dims, every cell of a
\* value in values, with start and goal on cells that are no obstacle.
InitGrid(dims, values) ==
    /\ \E d \in dims :
          /\ height = d[1]
          /\ width = d[2]
          /\ grid \in [Cells(d[1], d[2]) -> values]
    /\ static_obstacles = {p \in DOMAIN grid : grid[p] = Inf}
    /\ dynamic_obstacles = setup_dynamic_obstacles
    /\ start_pos \in DOMAIN grid \ static_obstacles
    /\ goal_pos \in DOMAIN grid \ static_obstacles

\* The locals of dynamic_replanning_demo before it runs; called_with records
\* the agent's start and goal at the call, calls the calls the demo makes on
\* the agent and on the city, in order, with their arguments (a_star with the
\* start it plans from).
NoLocals ==
    [log |-> <<>>, initial_result |-> NotRun, current_position |-> None,
     steps_taken |-> 0, obstacle_pos |-> None, original_start |-> None,
     replan_result |-> NotRun, called_with |-> <<None, None>>, calls |-> <<>>]

\* No search call is followed yet.
NoCall ==
    [algo |-> "none", pc |-> "idle", queue |-> <<>>, frontier |-> <<>>,
     came_from |-> <<>>, visited |-> {}, cost_so_far |-> <<>>,
     nodes_expanded |-> 0, popped |-> {}, grid_queries |-> 0,
     returned |-> None]

\* The agent of a city that is given as constructed: its map text plays no part.
InitAgent ==
    /\ result = [a \in Algos |-> NotRun]
    /\ pc = "idle"
    /\ demo = NoLocals
    /\ call = NoCall
    /\ lines = None

\* A city as InitGrid gives it, after one call add_dynamic_obstacle(p, 0).
InitBlocked(dims, values) ==
    /\ \E d \in dims :
          /\ height = d[1]
          /\ width = d[2]
          /\ grid \in [Cells(d[1], d[2]) -> values]
    /\ static_obstacles = {p \in DOMAIN grid : grid[p] = Inf}
    /\ \E p \in DOMAIN grid :
          dynamic_obstacles = (default_time_step :> <<p>>) @@ setup_dynamic_obstacles
    /\ start_pos \in DOMAIN grid \ static_obstacles
    /\ goal_pos \in DOMAIN grid \ static_obstacles

\* Small cities of mixed terrain with walls, larger ones of walls and
\* standard terrain (the map S.. / .#. / ..G is one of them), and small ones
\* with a cell blocked at time step 0.
InitSearch ==
    /\ \/ InitGrid(SearchDims, (1..MaxCost) \cup {Inf})
       \/ InitGrid(MazeDims, {1, Inf})
       \/ InitBlocked(SearchDims, {1, Inf})
    /\ InitAgent

\* Open terrain: no obstacles, a wider range of costs.
InitTerrain ==
    /\ InitGrid(SearchDims, 1..MaxTerrainCost)
    /\ InitAgent

RunBfs ==
    /\ result' = [result EXCEPT !["bfs"] = bfs]
    /\ UNCHANGED <<env_vars, start_pos, goal_pos, pc, demo, call, lines>>

RunUcs ==
    /\ result' = [result EXCEPT !["ucs"] = ucs]
    /\ UNCHANGED <<env_vars, start_pos, goal_pos, pc, demo, call, lines>>

RunAStar ==
    /\ result' = [result EXCEPT !["a_star"] = a_star]
    /\ UNCHANGED <<env_vars, start_pos, goal_pos, pc, demo, call, lines>>

NextSearch == RunBfs \/ RunUcs \/ RunAStar

SpecSearch == InitSearch /\ [][NextSearch]_vars

SpecTerrain == InitTerrain /\ [][NextSearch]_vars

----------------------------------------------------------------------------
(* agent.py: the searches followed step by step.  A call is one action up  *)
(* to its while loop, then one action per iteration of the loop.  call     *)
(* holds the locals of the call, the positions it has popped so far, the   *)
(* number of its get_neighbors and get_cost calls, and the dictionary it   *)
(* returns, elapsed time included; result keeps that dictionary without    *)
(* the time.                                                               *)

StepDims == {<<2, 3>>}

StepCosts == {1, 3}

WallDims == {<<2, 2>>}

Elapsed == 0..MaxElapsed

\* Open cities of two terrains with start and goal, and small cities of
\* walls whose map may lack S or G.
InitStep ==
    /\ \/ InitGrid(StepDims, StepCosts)
       \/ /\ \E d \in WallDims :
                /\ height = d[1]
                /\ width = d[2]
                /\ grid \in [Cells(d[1], d[2]) -> {1, Inf}]
          /\ static_obstacles = {p \in DOMAIN grid : grid[p] = Inf}
          /\ dynamic_obstacles = setup_dynamic_obstacles
          /\ start_pos \in (DOMAIN grid \ static_obstacles) \cup {None}
          /\ goal_pos \in (DOMAIN grid \ static_obstacles) \cup {None}
    /\ InitAgent

\* The dictionary returned at once, with the cost left at 0.
early_return_no_cost ==
    [path |-> None, cost |-> 0, nodes_expanded |-> 0, time |-> 0]

\* The dictionary returned at once when start or goal is missing.
early_return ==
    [path |-> None, cost |-> Inf, nodes_expanded |-> 0, time |-> 0]

\* The dictionary of the result r with the elapsed time.
timed(r, elapsed_time) ==
    [path |-> r.path, cost |-> r.cost, nodes_expanded |-> r.nodes_expanded,
     time |-> elapsed_time]

untimed(d) ==
    [path |-> d.path, cost |-> d.cost, nodes_expanded |-> d.nodes_expanded]

\* return r, from the locals st, after elapsed_time.
Return(st, r, elapsed_time) ==
    /\ call' = [st EXCEPT !.pc = "returned", !.returned = timed(r, elapsed_time)]
    /\ result' = [result EXCEPT ![st.algo] = r]

\* The missing start or goal: return at once.
ReturnEarly(algo) ==
    /\ call' = [NoCall EXCEPT !.algo = algo, !.pc = "returned",
                              !.returned = early_return]
    /\ result' = [result EXCEPT ![algo] = untimed(early_return)]

\* bfs whose visited set is kept from one call to the next.
CallBfsKeepsVisited ==
    /\ call.pc # "loop"
    /\ IF start_pos = None \/ goal_pos = None
       THEN ReturnEarly("bfs")
       ELSE /\ call' = [NoCall EXCEPT !.algo = "bfs", !.pc = "loop",
                                      !.queue = <<start_pos>>,
                                      !.came_from = (start_pos :> None),
                                      !.visited = call.visited \cup {start_pos}]
            /\ result' = result
    /\ UNCHANGED <<env_vars, start_pos, goal_pos, pc, demo, lines>>

\* bfs up to its while loop.
CallBfs ==
    /\ call.pc # "loop"
    /\ IF start_pos = None \/ goal_pos = None
       THEN ReturnEarly("bfs")
       ELSE /\ call' = [NoCall EXCEPT !.algo = "bfs", !.pc = "loop",
                                      !.queue = <<start_pos>>,
                                      !.came_from = (start_pos :> None),
                                      !.visited = {start_pos}]
            /\ result' = result
    /\ UNCHANGED <<env_vars, start_pos, goal_pos, pc, demo, lines>>

\* One iteration of the while loop of bfs, or the return after it.
BfsStep ==
    /\ call.algo = "bfs" /\ call.pc = "loop"
    /\ IF call.queue = <<>>
       THEN \E elapsed_time \in Elapsed :
                Return(call, failure(call.nodes_expanded), elapsed_time)
       ELSE LET got     == deque_popleft(call.queue)
                current == got.item
                popped  == [call EXCEPT !.queue = got.rest,
                                        !.nodes_expanded = @ + 1,
                                        !.popped = @ \cup {current}]
            IN  IF current = goal_pos
                THEN \E elapsed_time \in Elapsed :
                         LET path == reconstruct_path(popped.came_from, current)
                         IN  Return([popped EXCEPT !.grid_queries = @ + Len(path)],
                                    [path |-> path, cost |-> sum_cost(path),
                                     nodes_expanded |-> popped.nodes_expanded],
                                    elapsed_time)
                ELSE /\ call' = bfs_explore(get_neighbors(current), 1, current,
                                      [popped EXCEPT !.grid_queries = @ + 1])
                     /\ result' = result
    /\ UNCHANGED <<env_vars, start_pos, goal_pos, pc, demo, lines>>

\* ucs up to its while loop.
CallUcs ==
    /\ call.pc # "loop"
    /\ IF start_pos = None \/ goal_pos = None
       THEN ReturnEarly("ucs")
       ELSE /\ call' = [NoCall EXCEPT !.algo = "ucs", !.pc = "loop",
                                      !.frontier = pq_put(<<>>, start_pos, 0),
                                      !.came_from = (start_pos :> None),
                                      !.cost_so_far = (start_pos :> 0)]
            /\ result' = result
    /\ UNCHANGED <<env_vars, start_pos, goal_pos, pc, demo, lines>>

\* One iteration of the while loop of ucs, or the return after it.
UcsStep ==
    /\ call.algo = "ucs" /\ call.pc = "loop"
    /\ IF pq_empty(call.frontier)
       THEN \E elapsed_time \in Elapsed :
                Return(call, failure(call.nodes_expanded), elapsed_time)
       ELSE LET got     == pq_get(call.frontier)
                current == got.item
                popped  == [call EXCEPT !.frontier = got.rest,
                                        !.nodes_expanded = @ + 1,
                                        !.popped = @ \cup {current}]
            IN  IF current = goal_pos
                THEN \E elapsed_time \in Elapsed :
                         Return(popped,
                                [path |-> reconstruct_path(popped.came_from, current),
                                 cost |-> popped.cost_so_far[current],
                                 nodes_expanded |-> popped.nodes_expanded],
                                elapsed_time)
                ELSE /\ call' = ucs_explore(get_neighbors(current), 1, current,
                                      [popped EXCEPT !.grid_queries = @ + 1])
                     /\ result' = result
    /\ UNCHANGED <<env_vars, start_pos, goal_pos, pc, demo, lines>>

\* a_star up to its while loop.
CallAStar ==
    /\ call.pc # "loop"
    /\ IF start_pos = None \/ goal_pos = None
       THEN ReturnEarly("a_star")
       ELSE /\ call' = [NoCall EXCEPT !.algo = "a_star", !.pc = "loop",
                                      !.frontier = pq_put(<<>>, start_pos, 0),
                                      !.came_from = (start_pos :> None),
                                      !.cost_so_far = (start_pos :> 0)]
            /\ result' = result
    /\ UNCHANGED <<env_vars, start_pos, goal_pos, pc, demo, lines>>

\* One iteration of the while loop of a_star, or the return after it.
AStarStep ==
    /\ call.algo = "a_star" /\ call.pc = "loop"
    /\ IF pq_empty(call.frontier)
       THEN \E elapsed_time \in Elapsed :
                Return(call, failure(call.nodes_expanded), elapsed_time)
       ELSE LET got     == pq_get(call.frontier)
                current == got.item
                popped  == [call EXCEPT !.frontier = got.rest,
                                        !.nodes_expanded = @ + 1,
                                        !.popped = @ \cup {current}]
            IN  IF current = goal_pos
                THEN \E elapsed_time \in Elapsed :
                         Return(popped,
                                [path |-> reconstruct_path(popped.came_from, current),
                                 cost |-> popped.cost_so_far[current],
                                 nodes_expanded |-> popped.nodes_expanded],
                                elapsed_time)
                ELSE /\ call' = a_star_explore(get_neighbors(current), 1, current,
                                      [popped EXCEPT !.grid_queries = @ + 1])
                     /\ result' = result
    /\ UNCHANGED <<env_vars, start_pos, goal_pos, pc, demo, lines>>

NextStep == CallBfs \/ CallUcs \/ CallAStar \/ BfsStep \/ UcsStep \/ AStarStep

SpecStep == InitStep /\ [][NextStep]_vars


----------------------------------------------------------------------------
(* environment.py: the constructor of the grid city on bounded map files.  *)
(* lines is what file.readlines() returns; the rows of a map have one      *)
(* width, blank lines may stand anywhere.                                  *)

Chars == {"S", "G", "#", ".", "2", "0", " "}

\* The lines of at most MaxWidth characters, each ended by its newline.
FileLines ==
    {Append(body, "\n") : body \in UNION {[1..n -> Chars] : n \in 0..MaxWidth}}

\* The rows of a map file: its lines that are not blank, stripped.
Rows(file_lines) ==
    SelectSeq([i \in 1..Len(file_lines) |-> strip(file_lines[i])],
              LAMBDA line : line # <<>>)

\* A new GridCity at the call of _load_map, with the file it is given.
InitLoad ==
    /\ lines \in UNION {[1..n -> FileLines] : n \in 0..MaxLines}
    /\ \A i, j \in 1..Len(Rows(lines)) : Len(Rows(lines)[i]) = Len(Rows(lines)[j])
    /\ grid = NotLoaded.grid
    /\ height = 0
    /\ width = 0
    /\ static_obstacles = NotLoaded.static_obstacles
    /\ dynamic_obstacles = <<>>
    /\ start_pos = NotLoaded.start_pos
    /\ goal_pos = NotLoaded.goal_pos
    /\ result = [a \in Algos |-> NotRun]
    /\ pc = "load_map"
    /\ demo = NoLocals
    /\ call = NoCall

\* _load_map and _setup_dynamic_obstacles, the rest of GridCity.__init__;
\* grid[<<r, c>>] is the code's grid[r][c].
LoadMap ==
    /\ pc = "load_map"
    /\ LET loaded == load_map(lines)
           h      == Len(loaded.grid)
           w      == IF loaded.grid # <<>> THEN Len(loaded.grid[1]) ELSE 0
       IN /\ grid' = [p \in Cells(h, w) |-> loaded.grid[p[1] + 1][p[2] + 1]]
          /\ height' = h
          /\ width' = w
          /\ static_obstacles' = loaded.static_obstacles
          /\ start_pos' = loaded.start_pos
          /\ goal_pos' = loaded.goal_pos
    /\ dynamic_obstacles' = setup_dynamic_obstacles
    /\ pc' = "constructed"
    /\ UNCHANGED <<result, demo, call, lines>>

NextLoad == LoadMap

SpecLoad == InitLoad /\ [][NextLoad]_vars


----------------------------------------------------------------------------
(* The dynamic obstacle schedule under add and remove calls *)

EnvDims == {<<2, 2>>}

\* The time steps of the calls: the default one and the constructed ones.
TimeSteps == {default_time_step} \cup DOMAIN setup_dynamic_obstacles

\* The cells the constructed schedule lists.
ScheduledCells ==
    UNION {Range(setup_dynamic_obstacles[t]) : t \in DOMAIN setup_dynamic_obstacles}

\* A city loaded from a map without S and G; no search is run on it.
InitEnv ==
    /\ \E d \in EnvDims :
          /\ height = d[1]
          /\ width = d[2]
          /\ grid \in [Cells(d[1], d[2]) -> {1, Inf}]
    /\ static_obstacles = {p \in DOMAIN grid : grid[p] = Inf}
    /\ dynamic_obstacles = setup_dynamic_obstacles
    /\ start_pos = None
    /\ goal_pos = None
    /\ InitAgent

AddDynamicObstacle ==
    /\ \E position \in Cells(height, width), time_step \in TimeSteps :
          /\ time_step \in DOMAIN dynamic_obstacles
                => Len(dynamic_obstacles[time_step]) < MaxBucket
          /\ dynamic_obstacles' = add_dynamic_obstacle(position, time_step)
    /\ UNCHANGED <<grid, height, width, static_obstacles,
                   start_pos, goal_pos, result, pc, demo, call, lines>>

RemoveDynamicObstacle ==
    /\ \E position \in Cells(height, width) \cup ScheduledCells,
          time_step \in TimeSteps :
          dynamic_obstacles' = remove_dynamic_obstacle(position, time_step)
    /\ UNCHANGED <<grid, height, width, static_obstacles,
                   start_pos, goal_pos, result, pc, demo, call, lines>>

NextEnv == AddDynamicObstacle \/ RemoveDynamicObstacle

SpecEnv == InitEnv /\ [][NextEnv]_vars

----------------------------------------------------------------------------
(* agent.py: dynamic_replanning_demo, one action per step of its script.   *)
(* The log keeps the fixed text of the lines that tell the exits apart.    *)

DemoDims == {<<2, 4>>}

\* Wide cities of walls and terrain, and the cities of walls and standard
\* terrain of the searches, where a detour can be longer.
InitDemo ==
    /\ \/ InitGrid(DemoDims, (1..MaxDemoCost) \cup {Inf})
       \/ InitGrid(MazeDims, {1, Inf})
    /\ InitAgent

min(a, b) == IF a < b THEN a ELSE b

\* The call: log = [...].
DemoCall ==
    /\ pc = "idle"
    /\ pc' = "step1"
    /\ demo' = [NoLocals EXCEPT !.log = <<"=== Dynamic Replanning Demo ===">>,
                                !.called_with = <<start_pos, goal_pos>>]
    /\ UNCHANGED <<env_vars, start_pos, goal_pos, result, call, lines>>

\* Step 1: plan the initial path with a_star; return if there is none.
DemoPlan ==
    /\ pc = "step1"
    /\ LET initial_result == a_star
       IN  IF initial_result.path = None
           THEN /\ demo' = [demo EXCEPT !.initial_result = initial_result,
                                !.calls = Append(@, <<"a_star", start_pos>>),
                                !.log = Append(@, "ERROR: No initial path found!")]
                /\ pc' = "returned"
           ELSE /\ demo' = [demo EXCEPT !.initial_result = initial_result,
                                !.calls = Append(@, <<"a_star", start_pos>>),
                                !.log = Append(@, "Initial path found")]
                /\ pc' = "step2"
    /\ UNCHANGED <<env_vars, start_pos, goal_pos, result, call, lines>>

\* The for loop of step 2 from iteration i: <<current_position, steps_taken>>.
RECURSIVE demo_move(_, _, _, _, _)
demo_move(path, max_steps, i, current_position, steps_taken) ==
    IF i >= max_steps THEN <<current_position, steps_taken>>
    ELSE IF i + 1 < Len(path)
         THEN demo_move(path, max_steps, i + 1, path[i + 2], steps_taken + 1)
         ELSE demo_move(path, max_steps, i + 1, current_position, steps_taken)

\* Step 2: move along the path for up to 4 steps.
DemoMove ==
    /\ pc = "step2"
    /\ LET path      == demo.initial_result.path
           max_steps == min(4, Len(path) - 1)
           moved     == demo_move(path, max_steps, 0, start_pos, 0)
       IN  demo' = [demo EXCEPT !.current_position = moved[1],
                                !.steps_taken = moved[2],
                                !.log = Append(@, "Agent has moved")]
    /\ pc' = "step3"
    /\ UNCHANGED <<env_vars, start_pos, goal_pos, result, call, lines>>

\* Step 3: block the next cell of the remaining path; return if none is left.
DemoInject ==
    /\ pc = "step3"
    /\ LET path           == demo.initial_result.path
           remaining_path == SubSeq(path, demo.steps_taken + 2, Len(path))
       IN  IF remaining_path # <<>>
           THEN /\ dynamic_obstacles' =
                       add_dynamic_obstacle(remaining_path[1], demo.steps_taken)
                /\ demo' = [demo EXCEPT !.obstacle_pos = remaining_path[1],
                                 !.calls = Append(@, <<"add_dynamic_obstacle",
                                                       remaining_path[1],
                                                       demo.steps_taken>>),
                                 !.log = Append(@, "Dynamic obstacle added")]
                /\ pc' = "step4"
           ELSE /\ dynamic_obstacles' = dynamic_obstacles
                /\ demo' = [demo EXCEPT
                                 !.log = Append(@, "No remaining path to block")]
                /\ pc' = "returned"
    /\ UNCHANGED <<grid, height, width, static_obstacles, start_pos, goal_pos, result, call, lines>>

\* Step 4: original_start = self.start_pos; self.start_pos = current_position.
DemoSetStart ==
    /\ pc = "step4"
    /\ demo' = [demo EXCEPT !.original_start = start_pos,
                            !.log = Append(@, "Step 4: Re-planning")]
    /\ start_pos' = demo.current_position
    /\ pc' = "replan"
    /\ UNCHANGED <<env_vars, goal_pos, result, call, lines>>

\* Step 4: replan_result = self.a_star().
DemoReplan ==
    /\ pc = "replan"
    /\ demo' = [demo EXCEPT !.replan_result = a_star,
                            !.calls = Append(@, <<"a_star", start_pos>>)]
    /\ pc' = "restore"
    /\ UNCHANGED <<env_vars, start_pos, goal_pos, result, call, lines>>

\* The start left as the replanning call had it.
not_restored_start == start_pos

\* The start the agent is left with after the replanning call.
restored_start == demo.original_start

\* Step 4: self.start_pos = original_start; return if nothing was replanned.
DemoRestore ==
    /\ pc = "restore"
    /\ start_pos' = restored_start
    /\ IF demo.replan_result.path = None
       THEN /\ demo' = [demo EXCEPT
                            !.log = Append(@, "ERROR: No replanned path found!")]
            /\ pc' = "returned"
       ELSE /\ demo' = [demo EXCEPT !.log = Append(@, "Replanned path found")]
            /\ pc' = "step5"
    /\ UNCHANGED <<env_vars, goal_pos, result, call, lines>>

\* Step 5: the closing lines of the log.
DemoFinish ==
    /\ pc = "step5"
    /\ demo' = [demo EXCEPT
                    !.log = Append(@, "Dynamic replanning demo completed successfully!")]
    /\ pc' = "returned"
    /\ UNCHANGED <<env_vars, start_pos, goal_pos, result, call, lines>>

NextDemo ==
    \/ DemoCall
    \/ DemoPlan
    \/ DemoMove
    \/ DemoInject
    \/ DemoSetStart
    \/ DemoReplan
    \/ DemoRestore
    \/ DemoFinish

SpecDemo == InitDemo /\ [][NextDemo]_vars

----------------
(* Reference notions the properties are stated with: routes on the grid,   *)
(* defined without the searches.                                           *)

AllCells == Cells(height, width)

\* p may be entered: inside the grid, no static obstacle, not scheduled at step 0.
Free(p) ==
    /\ p \in AllCells
    /\ p \notin static_obstacles
    /\ 0 \in DOMAIN dynamic_obstacles => p \notin Range(dynamic_obstacles[0])

Adjacent(p, q) ==
    \/ p[1] = q[1] /\ (p[2] = q[2] + 1 \/ q[2] = p[2] + 1)
    \/ p[2] = q[2] /\ (p[1] = q[1] + 1 \/ q[1] = p[1] + 1)

Around(p) == {q \in ((p[1] - 1)..(p[1] + 1)) \X ((p[2] - 1)..(p[2] + 1)) : Adjacent(p, q)}

Least(S) == CHOOSE x \in S : \A y \in S : x <= y

\* One round of relaxation of the distances d from the source; entering p
\* costs grid[p] (weighted) or 1 (edge count).
\* (Combining with the empty function makes TLC tabulate the result.)
RelaxOnce(d, weighted) ==
    [p \in AllCells |->
        IF ~Free(p) THEN d[p]
        ELSE Least({d[p]} \cup
                   {d[q] + (IF weighted THEN grid[p] ELSE 1) :
                        q \in {c \in Around(p) \cap AllCells : d[c] < Inf}})]
    @@ <<>>

RECURSIVE RelaxTimes(_, _, _)
RelaxTimes(d, weighted, n) ==
    LET next == RelaxOnce(d, weighted)
    IN  IF n = 0 \/ next = d THEN d ELSE RelaxTimes(next, weighted, n - 1)

\* Least cost (sum of the costs of the cells entered), or least number of
\* edges, of a route from source to every cell; Inf where there is none.
Distances(source, weighted) ==
    RelaxTimes([p \in AllCells |-> IF p = source THEN 0 ELSE Inf],
               weighted, Cardinality(AllCells))

MinCost == Distances(start_pos, TRUE)[goal_pos]

MinEdges == Distances(start_pos, FALSE)[goal_pos]

Reachable == MinEdges < Inf

ReachableCells ==
    LET d == Distances(start_pos, FALSE) IN {p \in AllCells : d[p] < Inf}

Ran(a) == result[a] # NotRun

----------------------------------------------------------------------------
(* Properties of the searches *)

\* C2: when the goal is reachable, ucs and a_star return the same cost, and
\* it is the least sum of entered-cell costs over all obstacle-free routes.
C2_UcsAStarMinimalCost ==
    LET least == MinCost
    IN  (Ran("ucs") \/ Ran("a_star")) /\ least < Inf =>
            /\ Ran("ucs") => result["ucs"].cost = least
            /\ Ran("a_star") => result["a_star"].cost = least
            /\ Ran("ucs") /\ Ran("a_star")
                  => result["ucs"].cost = result["a_star"].cost

C2_Witness ==
    /\ Ran("ucs") /\ Ran("a_star") /\ Ran("bfs")
    /\ static_obstacles # {}
    /\ result["ucs"].path # None
    /\ result["ucs"].cost = result["a_star"].cost
    /\ result["ucs"].cost < result["bfs"].cost - grid[start_pos]
    /\ result["ucs"].cost = MinCost

\* C3: when the goal is reachable, the path of bfs has no more edges than
\* any obstacle-free route from start to goal.
C3_BfsFewestEdges ==
    LET fewest == MinEdges
    IN  Ran("bfs") /\ fewest < Inf =>
            /\ result["bfs"].path # None
            /\ Len(result["bfs"].path) - 1 <= fewest

C3_Witness ==
    /\ Ran("bfs")
    /\ Len(result["bfs"].path) >= 4
    /\ Len(result["bfs"].path) - 1 = MinEdges
    /\ result["bfs"].cost > MinCost + grid[start_pos]

\* C4: when no obstacle-free route leads from start to goal, every search
\* returns path None and cost infinity, having popped every reachable cell.
C4_UnreachableFails ==
    (\E a \in Algos : Ran(a)) /\ ~Reachable =>
        LET n == Cardinality(ReachableCells)
        IN  \A a \in Algos :
                Ran(a) =>
                    /\ result[a].path = None
                    /\ result[a].cost = Inf
                    /\ result[a].nodes_expanded >= n

C4_Witness ==
    /\ \A a \in Algos : Ran(a) /\ result[a] = failure(result[a].nodes_expanded)
    /\ ~Reachable
    /\ Cardinality(ReachableCells) > 1

\* C5: with start equal to goal every search returns the one-cell path, the
\* terrain cost of that cell and one expansion.
C5_StartIsGoal ==
    \A a \in Algos :
        start_pos = goal_pos /\ Ran(a) =>
            /\ result[a].path = <<start_pos>>
            /\ result[a].cost = get_cost(start_pos)
            /\ result[a].nodes_expanded = 1

\* C6: on the map S.. / .#. / ..G, ucs and a_star each return a path of 5
\* cells and report the cost 5.
C6_ScenarioCost ==
    \A a \in {"ucs", "a_star"} :
        /\ grid = [p \in Cells(3, 3) |-> IF p = <<1, 1>> THEN Inf ELSE 1]
        /\ start_pos = <<0, 0>> /\ goal_pos = <<2, 2>>
        /\ Ran(a)
        => /\ Len(result[a].path) = 5
           /\ result[a].cost = 5

\* C7: a_star never pops more frontier entries than ucs.
C7_AStarExpandsNoMore ==
    Ran("ucs") /\ Ran("a_star") =>
        result["a_star"].nodes_expanded <= result["ucs"].nodes_expanded

\* The sum of the terrain costs of the cells of path from the i-th on.
RECURSIVE TerrainFrom(_, _)
TerrainFrom(path, i) ==
    IF i > Len(path) THEN 0 ELSE grid[path[i]] + TerrainFrom(path, i + 1)

\* path leads from start to goal by moves between adjacent cells, visits no
\* cell twice and, after its first cell, enters free cells only.
ValidPath(path) ==
    /\ path # <<>>
    /\ path[1] = start_pos
    /\ path[Len(path)] = goal_pos
    /\ \A i \in 1..(Len(path) - 1) : Adjacent(path[i], path[i + 1])
    /\ \A i, j \in 1..Len(path) : i # j => path[i] # path[j]
    /\ \A i \in 2..Len(path) : Free(path[i])

\* C19: every path a search returns leads from start_pos to goal_pos by
\* moves between 4-adjacent cells, has no cell twice, and every cell after
\* the first is in the grid, no static obstacle and not blocked at step 0.
C19_PathIsValid ==
    \A a \in Algos : Ran(a) /\ result[a].path # None => ValidPath(result[a].path)

C19_Witness ==
    /\ \A a \in Algos : Ran(a) /\ result[a].path # None
    /\ static_obstacles # {}
    /\ ~Free(start_pos)
    /\ Len(result["bfs"].path) >= 4
    /\ result["ucs"].path # result["bfs"].path

\* C20: ucs and a_star report the terrain cost of their path without its
\* first cell, bfs reports the terrain cost of all the cells of its path; on
\* the same path bfs reports the cost of the start cell more.
C20_CostConventions ==
    /\ \A a \in {"ucs", "a_star"} :
          Ran(a) /\ result[a].path # None =>
              result[a].cost = TerrainFrom(result[a].path, 2)
    /\ Ran("bfs") /\ result["bfs"].path # None =>
          result["bfs"].cost = TerrainFrom(result["bfs"].path, 1)
    /\ \A a \in {"ucs", "a_star"} :
          Ran(a) /\ Ran("bfs") /\ result[a].path # None
             /\ result[a].path = result["bfs"].path =>
                 result["bfs"].cost = result[a].cost + grid[start_pos]

C20_Witness ==
    /\ Ran("ucs") /\ Ran("a_star") /\ Ran("bfs")
    /\ result["ucs"].path = result["bfs"].path
    /\ result["a_star"].path = result["bfs"].path
    /\ Len(result["bfs"].path) >= 4
    /\ grid[start_pos] = 2
    /\ result["ucs"].cost >= 4
    /\ result["bfs"].cost = result["ucs"].cost + 2

----------------------------------------------------------------------------
(* Properties of the loader *)

\* The character the cell p of the grid was built from: the rows of the
\* grid are the rows of the map, in order.
BuiltFrom(p) == Rows(lines)[p[1] + 1][p[2] + 1]

\* The recorded position p denotes a cell of the grid, built from char.
Denotes(p, char) == is_valid(p) /\ BuiltFrom(p) = char

\* C18: blank lines are not counted as rows: after loading any map text,
\* blank lines before or between rows included, start_pos, goal_pos and
\* every static obstacle position denote the cell of the grid built from
\* that same character, so start_pos and goal_pos are valid with cost 1
\* and get_cost of every static obstacle is infinity.
C18_BlankLinesNotRows ==
    pc = "constructed" =>
        /\ start_pos # None =>
               Denotes(start_pos, "S") /\ get_cost(start_pos) = 1
        /\ goal_pos # None =>
               Denotes(goal_pos, "G") /\ get_cost(goal_pos) = 1
        /\ \A p \in static_obstacles :
               Denotes(p, "#") /\ get_cost(p) = Inf


----------------------------------------------------------------------------
(* Properties of the searches followed step by step *)

\* C12: with start_pos or goal_pos missing, each search returns at once the
\* dictionary of no path, infinite cost, no expansion and time 0; it never
\* enters its loop, pops nothing and makes no query to the grid.
C12_AbsentEndpointsReturnAtOnce ==
    start_pos = None \/ goal_pos = None =>
        /\ call.pc # "loop"
        /\ call.pc = "returned" =>
              /\ call.returned =
                     [path |-> None, cost |-> Inf, nodes_expanded |-> 0, time |-> 0]
              /\ call.popped = {} /\ call.nodes_expanded = 0
              /\ call.queue = <<>> /\ call.frontier = <<>>
              /\ call.grid_queries = 0
        /\ \A a \in Algos :
              Ran(a) => result[a] = [path |-> None, cost |-> Inf, nodes_expanded |-> 0]

C12_Witness ==
    /\ start_pos = None /\ goal_pos # None
    /\ call.pc = "returned" /\ call.algo = "a_star"
    /\ call.returned.time = 0
    /\ Ran("bfs") /\ Ran("ucs") /\ Ran("a_star")

\* The entries the step has put on the frontier: those after the ones left
\* by the pop.
Pushed == SubSeq(call'.frontier, Len(call.frontier), Len(call'.frontier))

\* A step of the loop of ucs or a_star that does not return.
Expands ==
    /\ call.pc = "loop" /\ call'.pc = "loop"
    /\ call.algo \in {"ucs", "a_star"} /\ call'.algo = call.algo

\* The sum over the cells S of their cost in c, Inf for a cell without one.
RECURSIVE SumCosts(_, _)
SumCosts(S, c) ==
    IF S = {} THEN 0
    ELSE LET p == CHOOSE x \in S : TRUE
         IN  (IF p \in DOMAIN c THEN c[p] ELSE Inf) + SumCosts(S \ {p}, c)

\* What is left to do for the call with the locals c: nothing once it has
\* returned, else the entries waiting to be popped and, twice, what the costs
\* on record can still lose (for bfs, a cell not yet visited counts as Inf).
Remaining(c) ==
    IF c.pc # "loop" THEN 0
    ELSE 1 + Len(c.queue) + Len(c.frontier)
           + 2 * SumCosts(AllCells, IF c.algo = "bfs"
                                    THEN [p \in c.visited |-> 0]
                                    ELSE c.cost_so_far)

\* C13: every search call returns: every step of its loop leaves strictly
\* less to do, down to the return (goal popped or frontier empty); ucs and
\* a_star push a position only when it has no cost_so_far yet or its
\* cost_so_far strictly decreases.
C13_SearchReturns ==
    /\ [][call.pc = "loop" =>
            /\ Remaining(call') < Remaining(call)
            /\ Remaining(call') >= 0
            /\ Remaining(call') = 0 =>
                  \/ call'.returned.path = None /\ call.queue = <<>> /\ call.frontier = <<>>
                  \/ call'.returned.path # None /\ goal_pos \in call'.popped]_vars
    /\ [][Expands =>
            \A i \in 1..Len(Pushed) :
                LET position == Pushed[i][2]
                IN  \/ position \notin DOMAIN call.cost_so_far
                    \/ call'.cost_so_far[position] < call.cost_so_far[position]]_vars

C13_Witness ==
    /\ call.pc = "returned" /\ call.algo = "a_star"
    /\ call.returned.path # None
    /\ call.nodes_expanded > Cardinality(call.popped)

\* C15: a search called again on the same agent and grid returns the path,
\* cost and nodes_expanded it returned before (the elapsed time may differ),
\* and no step of a search changes the grid model or the agent.
C15_SearchIsRepeatable ==
    [][/\ UNCHANGED <<env_vars, start_pos, goal_pos>>
       /\ \A a \in Algos : Ran(a) => result'[a] = result[a]]_vars

\* A second call of a_star is one pop from its return.
C15_Witness ==
    /\ Ran("a_star") /\ call.algo = "a_star" /\ call.pc = "loop"
    /\ result["a_star"].path # None
    /\ call.nodes_expanded = result["a_star"].nodes_expanded - 1
    /\ call.nodes_expanded >= 4

\* C16: among the entries of the least priority, the frontier of ucs and
\* a_star returns the one that was put first.
C16_TiesInInsertionOrder ==
    call.pc = "loop" /\ call.algo \in {"ucs", "a_star"} /\ call.frontier # <<>> =>
        LET i == pq_least(call.frontier)
        IN  \A j \in 1..Len(call.frontier) :
                call.frontier[j][1] = call.frontier[i][1] => i <= j

\* C17: in ucs and a_star, a position popped for the first time has the
\* least cost from the start as its cost_so_far; the pop of a position that
\* was popped before changes neither cost_so_far nor came_from and pushes
\* nothing.
C17_FirstPopIsOptimal ==
    [][call.pc = "loop" /\ call.algo \in {"ucs", "a_star"}
          /\ call.frontier # <<>> =>
          LET current == pq_get(call.frontier).item
          IN  /\ current \notin call.popped =>
                    call.cost_so_far[current] = Distances(start_pos, TRUE)[current]
              /\ current \in call.popped =>
                    /\ call'.cost_so_far = call.cost_so_far
                    /\ call'.came_from = call.came_from
                    /\ call'.pc = "loop" => Pushed = <<>>]_vars

\* The entry about to be popped is a second entry of its position.
C17_Witness ==
    /\ call.pc = "loop" /\ call.algo = "a_star" /\ call.frontier # <<>>
    /\ pq_get(call.frontier).item \in call.popped
    /\ pq_get(call.frontier).item # goal_pos

----------------------------------------------------------------------------
(* Properties of the grid city *)

Listed(p, t) ==
    t \in DOMAIN dynamic_obstacles
    /\ \E i \in 1..Len(dynamic_obstacles[t]) : dynamic_obstacles[t][i] = p

QueryTimes == TimeSteps \cup {t + 1 : t \in TimeSteps}

\* C8: a valid cell that is no static obstacle is no obstacle at a time step
\* whose bucket does not list it, whatever the other buckets list.
C8_UnlistedIsFree ==
    \A p \in AllCells \ static_obstacles, t \in QueryTimes :
        ~Listed(p, t) => ~is_obstacle(p, t)

C8_Witness ==
    /\ <<1, 1>> \notin static_obstacles
    /\ Listed(<<1, 1>>, 0) /\ Listed(<<1, 1>>, 5) /\ ~Listed(<<1, 1>>, 3)
    /\ 3 \notin DOMAIN dynamic_obstacles
    /\ ~is_obstacle(<<1, 1>>, 3)
    /\ is_obstacle(<<1, 1>>, 0)

ProbePositions == ((-1)..height) \X ((-1)..width)

FreeNeighbors(p) == {q \in AllCells : Adjacent(p, q) /\ Free(q)}

\* C9: get_neighbors(p) lists, once each, the cells next to p that are in
\* the grid, no static obstacle and not scheduled at time step 0, each with
\* its terrain cost; the buckets of other time steps play no part.
C9_NeighborsAreFreeAdjacentCells ==
    \A p \in ProbePositions :
        LET n == get_neighbors(p)
        IN  /\ {n[i][1] : i \in 1..Len(n)} = FreeNeighbors(p)
            /\ Len(n) = Cardinality(FreeNeighbors(p))
            /\ \A i \in 1..Len(n) : n[i][2] = grid[n[i][1]]

C9_Witness ==
    /\ Listed(<<0, 1>>, 0)
    /\ Listed(<<1, 0>>, 3) /\ Listed(<<1, 0>>, 5)
    /\ get_neighbors(<<0, 0>>) = << <<<<1, 0>>, 1>> >>
    /\ Len(get_neighbors(<<1, 1>>)) = 1

\* C14: no time step of the schedule maps to an empty list; removing the
\* last entry of a time step deletes its key and nothing else, and removing
\* a position or a time step that is not registered changes nothing.
C14_NoEmptyBucket ==
    /\ \A t \in DOMAIN dynamic_obstacles : dynamic_obstacles[t] # <<>>
    /\ \A p \in AllCells \cup ScheduledCells, t \in QueryTimes :
          LET after == remove_dynamic_obstacle(p, t)
          IN  /\ \A u \in DOMAIN after : after[u] # <<>>
              /\ ~Listed(p, t) => after = dynamic_obstacles
              /\ Listed(p, t) /\ Len(dynamic_obstacles[t]) = 1 =>
                    /\ DOMAIN after = DOMAIN dynamic_obstacles \ {t}
                    /\ \A u \in DOMAIN after : after[u] = dynamic_obstacles[u]

C14_Witness ==
    /\ 3 \notin DOMAIN dynamic_obstacles
    /\ 5 \in DOMAIN dynamic_obstacles
    /\ dynamic_obstacles[5] = << <<2, 2>> >>
    /\ 0 \in DOMAIN dynamic_obstacles
    /\ 3 \notin DOMAIN remove_dynamic_obstacle(<<1, 2>>, 3)
    /\ 5 \notin DOMAIN remove_dynamic_obstacle(<<2, 2>>, 5)

----------------------------------------------------------------------------
(* Properties of the replanning demo *)

\* C1: when the initial path has 6 or more cells, the replanned path does
\* not contain the cell that was injected as a dynamic obstacle.
C1_ReplanAvoidsInjectedCell ==
    /\ pc \in {"restore", "step5", "returned"}
    /\ demo.obstacle_pos # None
    /\ Len(demo.initial_result.path) >= 6
    => demo.obstacle_pos \notin Range(demo.replan_result.path)

\* The constructed schedule with position appended to the list of time_step.
ScheduleWith(position, time_step) ==
    [t \in DOMAIN setup_dynamic_obstacles \cup {time_step} |->
        IF t # time_step THEN setup_dynamic_obstacles[t]
        ELSE (IF t \in DOMAIN setup_dynamic_obstacles
              THEN setup_dynamic_obstacles[t] ELSE <<>>) \o <<position>>]

\* The calls a run of the demo makes when its initial path is path.
DemoCallsFor(path) ==
    LET steps == IF Len(path) - 1 < 4 THEN Len(path) - 1 ELSE 4
    IN  IF path # None /\ Len(path) > steps + 1
        THEN << <<"a_star", demo.called_with[1]>>,
                <<"add_dynamic_obstacle", path[steps + 2], steps>>,
                <<"a_star", path[steps + 1]>> >>
        ELSE << <<"a_star", demo.called_with[1]>> >>

\* C11: a run of the demo makes at most one add_dynamic_obstacle call and at
\* most one replanning a_star call.  When a cell of the initial path is left
\* after min(4, length - 1) steps, the run makes exactly one injection, of
\* the first cell left at the time step of the steps taken, and then exactly
\* one a_star call from the simulated position; otherwise it makes neither.
C11_OneInjectionOneReplan ==
    /\ Len(demo.calls) <= 3
    /\ \A i \in 1..Len(demo.calls) :
          demo.calls[i][1] = "add_dynamic_obstacle" <=> i = 2
    /\ pc = "returned" =>
          LET path  == demo.initial_result.path
              calls == DemoCallsFor(path)
          IN  /\ demo.calls = calls
              /\ Len(calls) = 3 =>
                    /\ demo.steps_taken = calls[2][3]
                    /\ demo.current_position = calls[3][2]
                    /\ dynamic_obstacles = ScheduleWith(calls[2][2], calls[2][3])
              /\ Len(calls) = 1 => dynamic_obstacles = setup_dynamic_obstacles

C11_Witness ==
    /\ pc = "returned"
    /\ Len(demo.calls) = 3
    /\ Len(demo.initial_result.path) = 7
    /\ demo.calls[2] = <<"add_dynamic_obstacle", demo.initial_result.path[6], 4>>
    /\ demo.calls[3] = <<"a_star", demo.initial_result.path[5]>>
    /\ dynamic_obstacles[4] = <<demo.initial_result.path[6]>>

\* C10: whichever way the demo returns, the agent's start is the one it was
\* called with, and its goal is never changed.
C10_DemoRestoresStart ==
    /\ pc = "returned" => start_pos = demo.called_with[1]
    /\ pc # "idle" => goal_pos = demo.called_with[2]

C10_Witness ==
    /\ pc = "returned"
    /\ demo.replan_result.path # None
    /\ demo.original_start = start_pos
    /\ demo.current_position # start_pos
    /\ Head(demo.replan_result.path) = demo.current_position

====
